---- MODULE Spec2Model ----
(***************************************************************************)
(* State-machine model of src/ipo_scanner.py: one run of the IPO near-ATH  *)
(* scanner.  External collaborators (NSE equity list, Yahoo history and    *)
(* news, NSE bulk-deal report, BSE insider feed, Telegram) answer          *)
(* nondeterministically; the script's own control flow, exception          *)
(* handling and arithmetic are translated from the source.                 *)
(*                                                                         *)
(* Prices are integers (currency units).  THRESHOLD = 0.03 is carried as   *)
(* the integer percentage 3, so  current >= ath * (1 - THRESHOLD)  reads   *)
(* current * 100 >= ath * (100 - 3), and the reported distance is kept in  *)
(* hundredths of a percent (round(..., 2) * 100).                          *)
(* A non-empty history frame that carries a High column also carries a     *)
(* Close column (Yahoo delivers the OHLC columns together) and has unique  *)
(* index labels; the High-less frame is the one the source tests for.      *)
(***************************************************************************)
EXTENDS Integers, Sequences, FiniteSets, TLC

\* ---------------------------------------------------------------- bounds
MaxRows == 2
MaxBars == 4
MaxNews == 2
MaxInsiderRows == 2

\* ------------------------------------------------------ program constants
MIN_LISTING_DAYS == 150
THRESHOLD_PCT == 3

Symbols == {"AAA", "BBB"}
HighPrices == {99, 100}
ClosePrices == {96, 97, 101}

VARIABLES pc, creds, ipo_symbols, idx, visited, outcome, skipped, hist, ath_info,
          current, has_bulk, has_news, has_insider, diff, calls

vars == <<pc, creds, ipo_symbols, idx, visited, outcome, skipped, hist, ath_info,
          current, has_bulk, has_news, has_insider, diff, calls>>

\* ------------------------------------------------------------ value sets
SeqsUpTo(S, n) == UNION {[1..k -> S] : k \in 0..n}

\* a local the current iteration has not assigned yet
UnboundHist == [kind |-> "unbound"]
NoneHist == [kind |-> "None"]
EmptyHist == [kind |-> "empty"]

\* hist.index labels: trading dates, distinct from positions
IndexOf(n) == [i \in 1..n |-> 20 + i]

Frames ==
    UNION {
      {[kind |-> "frame", hasHigh |-> hh, index |-> IndexOf(n), High |-> h,
        Close |-> [i \in 1..n |-> IF i = n THEN c ELSE h[i]]]
         : h \in [1..n -> HighPrices], c \in ClosePrices, hh \in {TRUE}}
      : n \in 1..MaxBars}

NoHighFrames ==
    {[kind |-> "frame", hasHigh |-> FALSE, index |-> IndexOf(1),
      High |-> <<>>, Close |-> <<c>>] : c \in ClosePrices}

\* what yf.Ticker(...).history(period="max") can do
HistoryResponses ==
    {[raises |-> TRUE, frame |-> EmptyHist]}
    \cup {[raises |-> FALSE, frame |-> f] : f \in {EmptyHist} \cup Frames \cup NoHighFrames}

NoneAth == [ok |-> FALSE]

\* ---------------------------------------------------------- get_recent_ipos
DateCells == {[ok |-> FALSE, day |-> 0]}
             \cup {[ok |-> TRUE, day |-> d] : d \in {600, 850, 900}}

TableRows == [SYMBOL : Symbols, DATE : DateCells, SERIES : {"EQ", "BE"}]

\* today is day 1000; hour of the clock at the time of the run
NowHours == {1000 * 24, 1000 * 24 + 9}

EquityListResponses ==
    {[kind |-> "network_error", rows |-> <<>>],
     [kind |-> "malformed", rows |-> <<>>]}
    \cup {[kind |-> "csv", rows |-> r] : r \in SeqsUpTo(TableRows, MaxRows)}

\* pd.to_datetime(..., errors="coerce") of one cell: hours since day 0, or NaT
to_datetime(cell) ==
    IF cell.ok THEN [nat |-> FALSE, t |-> cell.day * 24]
    ELSE [nat |-> TRUE, t |-> 0]

RECURSIVE FilterRows(_, _)
FilterRows(rows, cutoff) ==
    IF rows = <<>> THEN <<>>
    ELSE LET r == Head(rows)
             t == to_datetime(r.DATE)
             rest == FilterRows(Tail(rows), cutoff)
         IN IF ~t.nat /\ t.t >= cutoff /\ r.SERIES = "EQ"
            THEN <<r.SYMBOL>> \o rest
            ELSE rest

\* result of get_recent_ipos (fetch_equity_list included)
get_recent_ipos(resp, days, now) ==
    IF resp.kind # "csv"
    THEN [raised |-> TRUE, symbols |-> <<>>]
    ELSE [raised |-> FALSE, symbols |-> FilterRows(resp.rows, now - days * 24)]

\* -------------------------------------------------------------- fetch_history
fetch_history(resp) ==
    IF resp.raises THEN NoneHist
    ELSE IF resp.frame.kind = "empty" THEN NoneHist
    ELSE resp.frame

\* ---------------------------------------------------------------- compute_ath
RECURSIVE SeriesMax(_, _)
SeriesMax(s, n) ==
    IF n = 1 THEN s[1]
    ELSE LET m == SeriesMax(s, n - 1) IN IF s[n] > m THEN s[n] ELSE m

\* faulty variant: the last occurrence of the maximum
RECURSIVE IdxMaxPos_last(_, _)
IdxMaxPos_last(s, n) ==
    IF n = 1 THEN 1
    ELSE LET p == IdxMaxPos_last(s, n - 1) IN IF s[n] >= s[p] THEN n ELSE p

\* position (1-based) of the first occurrence of the maximum
RECURSIVE IdxMaxPos(_, _)
IdxMaxPos(s, n) ==
    IF n = 1 THEN 1
    ELSE LET p == IdxMaxPos(s, n - 1) IN IF s[n] > s[p] THEN n ELSE p

\* Series.idxmax(): the index label of the first maximum
idxmax(h) == h.index[IdxMaxPos(h.High, Len(h.High))]

\* Index.get_loc(label): 0-based position of a unique label
get_loc(h, label) == (CHOOSE p \in 1..Len(h.index) : h.index[p] = label) - 1

compute_ath(h) ==
    IF h.kind = "None" \/ h.kind = "empty" THEN NoneAth
    ELSE IF ~h.hasHigh THEN NoneAth
    ELSE [ok |-> TRUE,
          ath |-> SeriesMax(h.High, Len(h.High)),
          ath_idx |-> idxmax(h),
          ath_pos |-> get_loc(h, idxmax(h)),
          total |-> Len(h.index)]

\* faulty variant: only two bars required since the ATH
TooRecent_off(ath_pos, total) == ath_pos > total - 3

\* line 232: "if ath_pos > total - 4: continue"
TooRecent(ath_pos, total) == ath_pos > total - 4

\* ------------------------------------------------------ corroboration checks
BulkResponses ==
    {[kind |-> "network_error", hasSymbolCol |-> FALSE, symbols |-> {}],
     [kind |-> "malformed", hasSymbolCol |-> FALSE, symbols |-> {}]}
    \cup {[kind |-> "csv", hasSymbolCol |-> c, symbols |-> s]
            : c \in BOOLEAN, s \in SUBSET Symbols}

\* faulty variant: no try/except around the request
check_bulk_deal_unguarded(symbol, resp) ==
    IF resp.kind # "csv" THEN [raised |-> TRUE, value |-> FALSE]
    ELSE IF resp.hasSymbolCol
         THEN [raised |-> FALSE, value |-> symbol \in resp.symbols]
         ELSE [raised |-> FALSE, value |-> FALSE]

check_bulk_deal(symbol, resp) ==
    IF resp.kind # "csv" THEN [raised |-> FALSE, value |-> FALSE]
    ELSE IF resp.hasSymbolCol
         THEN [raised |-> FALSE, value |-> symbol \in resp.symbols]
         ELSE [raised |-> FALSE, value |-> FALSE]

\* a headline: contains a positive word, contains none, or has no usable title
TitleKinds == {"positive", "neutral", "not_text"}

NewsResponses ==
    {[kind |-> "exception", items |-> <<>>]}
    \cup {[kind |-> "list", items |-> t] : t \in SeqsUpTo(TitleKinds, MaxNews)}

\* the for loop of lines 74-79: "True", "False", or "error" when .lower()
\* is called on a title that is not text
RECURSIVE ScanNews(_)
ScanNews(items) ==
    IF items = <<>> THEN "False"
    ELSE IF Head(items) = "not_text" THEN "error"
    ELSE IF Head(items) = "positive" THEN "True"
    ELSE ScanNews(Tail(items))

check_positive_news(symbol, resp) ==
    IF resp.kind = "exception" THEN [raised |-> FALSE, value |-> FALSE]
    ELSE IF resp.items = <<>> THEN [raised |-> FALSE, value |-> FALSE]
    ELSE IF ScanNews(resp.items) = "error" THEN [raised |-> FALSE, value |-> FALSE]
    ELSE [raised |-> FALSE, value |-> ScanNews(resp.items) = "True"]

ModeKinds == {"acquisition", "sale", "not_a_record"}

InsiderResponses ==
    {[kind |-> k, hasTable |-> FALSE, rows |-> <<>>]
        : k \in {"network_error", "empty_text", "html", "non_json"}}
    \cup {[kind |-> "json", hasTable |-> FALSE, rows |-> <<>>]}
    \cup {[kind |-> "json", hasTable |-> TRUE, rows |-> r]
            : r \in SeqsUpTo(ModeKinds, MaxInsiderRows)}

\* the for loop of lines 128-133: "error" when row.get fails on a row that
\* is not a record
RECURSIVE ScanInsider(_)
ScanInsider(rows) ==
    IF rows = <<>> THEN "False"
    ELSE IF Head(rows) = "not_a_record" THEN "error"
    ELSE IF Head(rows) = "acquisition" THEN "True"
    ELSE ScanInsider(Tail(rows))

check_insider_buying(symbol, resp) ==
    IF resp.kind # "json" THEN [raised |-> FALSE, value |-> FALSE]
    ELSE IF ~resp.hasTable THEN [raised |-> FALSE, value |-> FALSE]
    ELSE IF ScanInsider(resp.rows) = "error" THEN [raised |-> FALSE, value |-> FALSE]
    ELSE [raised |-> FALSE, value |-> ScanInsider(resp.rows) = "True"]

\* ------------------------------------------------------------ alert condition
\* round(n / d, 0) for d > 0, ties to even
RoundDiv(n, d) ==
    LET q == n \div d
        r == n % d
    IN IF 2 * r < d THEN q
       ELSE IF 2 * r > d THEN q + 1
       ELSE IF q % 2 = 0 THEN q ELSE q + 1

\* faulty variant: strict comparison
MainAlert_strict(ath, cur, bulk, news, insider) ==
    [alert |-> cur * 100 > ath * (100 - THRESHOLD_PCT),
     diff |-> RoundDiv((ath - cur) * 10000, ath),
     bulk_msg |-> IF bulk THEN "Yes" ELSE "No",
     news_msg |-> IF news THEN "Yes" ELSE "No",
     insider_msg |-> IF insider THEN "Yes" ELSE "No"]

\* faulty variant: the alert also requires a bulk deal
MainAlert_gated(ath, cur, bulk, news, insider) ==
    [alert |-> cur * 100 >= ath * (100 - THRESHOLD_PCT) /\ bulk,
     diff |-> RoundDiv((ath - cur) * 10000, ath),
     bulk_msg |-> IF bulk THEN "Yes" ELSE "No",
     news_msg |-> IF news THEN "Yes" ELSE "No",
     insider_msg |-> IF insider THEN "Yes" ELSE "No"]

\* lines 246-268: the decision and what goes into the message
MainAlert(ath, cur, bulk, news, insider) ==
    [alert |-> cur * 100 >= ath * (100 - THRESHOLD_PCT),
     diff |-> RoundDiv((ath - cur) * 10000, ath),
     bulk_msg |-> IF bulk THEN "Yes" ELSE "No",
     news_msg |-> IF news THEN "Yes" ELSE "No",
     insider_msg |-> IF insider THEN "Yes" ELSE "No"]

TelegramResponses == {"200", "non200", "exception"}

\* send_telegram: what became of the message
send_telegram(hasCreds, resp) ==
    IF ~hasCreds THEN [raised |-> FALSE, result |-> "no_credentials"]
    ELSE IF resp = "200" THEN [raised |-> FALSE, result |-> "delivered"]
    ELSE [raised |-> FALSE, result |-> "failed"]

\* did the external call behind a corroboration check fail
BulkFailed(resp) == resp.kind # "csv" \/ ~resp.hasSymbolCol
NewsFailed(resp) == resp.kind = "exception" \/ ScanNews(resp.items) = "error"
InsiderFailed(resp) ==
    resp.kind # "json" \/ ~resp.hasTable \/ ScanInsider(resp.rows) = "error"

\* external calls made so far in the current iteration (observation of the
\* environment, not a program variable)
NoCalls == [bulk |-> "not_called", news |-> "not_called",
            insider |-> "not_called", telegram |-> "not_called"]

\* ------------------------------------------------------------------- state
Init ==
    /\ pc = "start"
    /\ creds \in BOOLEAN
    /\ ipo_symbols = <<>>
    /\ idx = 0
    /\ visited = <<>>
    /\ outcome = "none"
    /\ skipped = 0
    /\ hist = UnboundHist
    /\ ath_info = NoneAth
    /\ current = 0
    /\ has_bulk = FALSE
    /\ has_news = FALSE
    /\ has_insider = FALSE
    /\ diff = 0
    /\ calls = NoCalls

sym == ipo_symbols[idx]

\* line 206-207
GetRecentIpos ==
    /\ pc = "start"
    /\ \E resp \in EquityListResponses, now \in NowHours :
          LET r == get_recent_ipos(resp, MIN_LISTING_DAYS, now)
          IN IF r.raised
             THEN /\ pc' = "crashed"
                  /\ UNCHANGED ipo_symbols
             ELSE /\ pc' = "loop"
                  /\ ipo_symbols' = r.symbols
    /\ UNCHANGED <<creds, idx, visited, outcome, skipped, hist, ath_info, current,
                   has_bulk, has_news, has_insider, diff, calls>>

\* lines 209-210: the for statement takes the next symbol.  Every local of
\* the loop body is assigned (lines 212, 224, 237, 242-244, 254) before the
\* body reads it, so the values left by the previous iteration are dropped
\* here; a read of a dropped value would stop the evaluation.
NextSymbol ==
    /\ pc = "loop"
    /\ idx < Len(ipo_symbols)
    /\ idx' = idx + 1
    /\ visited' = Append(visited, ipo_symbols[idx + 1])
    /\ pc' = "fetch_history"
    /\ calls' = NoCalls
    /\ hist' = UnboundHist
    /\ ath_info' = NoneAth
    /\ current' = 0
    /\ has_bulk' = FALSE
    /\ has_news' = FALSE
    /\ has_insider' = FALSE
    /\ diff' = 0
    /\ outcome' = "none"
    /\ UNCHANGED <<creds, ipo_symbols, skipped>>

\* line 271: the loop is exhausted
ScanComplete ==
    /\ pc = "loop"
    /\ idx = Len(ipo_symbols)
    /\ pc' = "done"
    /\ UNCHANGED <<creds, ipo_symbols, idx, visited, outcome, skipped, hist, ath_info,
                   current, has_bulk, has_news, has_insider, diff, calls>>

\* faulty variant: a missing history ends the loop (break for continue)
FetchHistory_break ==
    /\ pc = "fetch_history"
    /\ \E resp \in HistoryResponses :
          /\ hist' = fetch_history(resp)
          /\ IF hist'.kind = "None"
             THEN /\ outcome' = "no_history"
                  /\ skipped' = skipped + 1
                  /\ pc' = "done"
             ELSE /\ UNCHANGED <<outcome, skipped>>
                  /\ pc' = "compute_ath"
    /\ UNCHANGED <<creds, ipo_symbols, idx, visited, ath_info, current,
                   has_bulk, has_news, has_insider, diff, calls>>

\* lines 212-215
FetchHistory ==
    /\ pc = "fetch_history"
    /\ \E resp \in HistoryResponses :
          /\ hist' = fetch_history(resp)
          /\ IF hist'.kind = "None"
             THEN /\ outcome' = "no_history"
                  /\ skipped' = skipped + 1
                  /\ pc' = "loop"
             ELSE /\ UNCHANGED <<outcome, skipped>>
                  /\ pc' = "compute_ath"
    /\ UNCHANGED <<creds, ipo_symbols, idx, visited, ath_info, current,
                   has_bulk, has_news, has_insider, diff, calls>>

\* lines 224-227
ComputeATH ==
    /\ pc = "compute_ath"
    /\ ath_info' = compute_ath(hist)
    /\ IF ~ath_info'.ok
       THEN /\ outcome' = "no_ath"
            /\ skipped' = skipped + 1
            /\ pc' = "loop"
       ELSE /\ UNCHANGED <<outcome, skipped>>
            /\ pc' = "recency_gate"
    /\ UNCHANGED <<creds, ipo_symbols, idx, visited, hist, current,
                   has_bulk, has_news, has_insider, diff, calls>>

\* faulty variant: the decision is taken right after the gate
RecencyGate_nochecks ==
    /\ pc = "recency_gate"
    /\ IF TooRecent(ath_info.ath_pos, ath_info.total)
       THEN /\ outcome' = "too_recent"
            /\ skipped' = skipped + 1
            /\ pc' = "loop"
            /\ UNCHANGED current
       ELSE /\ current' = hist.Close[Len(hist.Close)]
            /\ pc' = "decide"
            /\ UNCHANGED <<outcome, skipped>>
    /\ UNCHANGED <<creds, ipo_symbols, idx, visited, hist, ath_info,
                   has_bulk, has_news, has_insider, diff, calls>>

\* lines 229-237
RecencyGate ==
    /\ pc = "recency_gate"
    /\ IF TooRecent(ath_info.ath_pos, ath_info.total)
       THEN /\ outcome' = "too_recent"
            /\ skipped' = skipped + 1
            /\ pc' = "loop"
            /\ UNCHANGED current
       ELSE /\ current' = hist.Close[Len(hist.Close)]
            /\ pc' = "check_bulk"
            /\ UNCHANGED <<outcome, skipped>>
    /\ UNCHANGED <<creds, ipo_symbols, idx, visited, hist, ath_info,
                   has_bulk, has_news, has_insider, diff, calls>>

\* line 242
CheckBulkDeal ==
    /\ pc = "check_bulk"
    /\ \E resp \in BulkResponses :
          LET r == check_bulk_deal(sym, resp)
          IN IF r.raised
             THEN pc' = "crashed" /\ UNCHANGED <<has_bulk, calls>>
             ELSE /\ pc' = "check_news"
                  /\ has_bulk' = r.value
                  /\ calls' = [calls EXCEPT !.bulk =
                                 IF BulkFailed(resp) THEN "failed" ELSE "ok"]
    /\ UNCHANGED <<creds, ipo_symbols, idx, visited, outcome, skipped, hist, ath_info,
                   current, has_news, has_insider, diff>>

\* line 243
CheckPositiveNews ==
    /\ pc = "check_news"
    /\ \E resp \in NewsResponses :
          LET r == check_positive_news(sym, resp)
          IN IF r.raised
             THEN pc' = "crashed" /\ UNCHANGED <<has_news, calls>>
             ELSE /\ pc' = "check_insider"
                  /\ has_news' = r.value
                  /\ calls' = [calls EXCEPT !.news =
                                 IF NewsFailed(resp) THEN "failed" ELSE "ok"]
    /\ UNCHANGED <<creds, ipo_symbols, idx, visited, outcome, skipped, hist, ath_info,
                   current, has_bulk, has_insider, diff>>

\* line 244
CheckInsiderBuying ==
    /\ pc = "check_insider"
    /\ \E resp \in InsiderResponses :
          LET r == check_insider_buying(sym, resp)
          IN IF r.raised
             THEN pc' = "crashed" /\ UNCHANGED <<has_insider, calls>>
             ELSE /\ pc' = "decide"
                  /\ has_insider' = r.value
                  /\ calls' = [calls EXCEPT !.insider =
                                 IF InsiderFailed(resp) THEN "failed" ELSE "ok"]
    /\ UNCHANGED <<creds, ipo_symbols, idx, visited, outcome, skipped, hist, ath_info,
                   current, has_bulk, has_news, diff>>

\* lines 246-268
Decide ==
    /\ pc = "decide"
    /\ LET d == MainAlert(ath_info.ath, current, has_bulk, has_news, has_insider)
       IN IF d.alert
          THEN /\ diff' = d.diff
               /\ outcome' = "alert"
               /\ pc' = "send_telegram"
          ELSE /\ outcome' = "no_alert"
               /\ pc' = "loop"
               /\ UNCHANGED diff
    /\ UNCHANGED <<creds, ipo_symbols, idx, visited, skipped, hist, ath_info,
                   current, has_bulk, has_news, has_insider, calls>>

\* line 269 and lines 23-36
SendTelegram ==
    /\ pc = "send_telegram"
    /\ \E resp \in TelegramResponses :
          LET r == send_telegram(creds, resp)
          IN IF r.raised
             THEN pc' = "crashed" /\ UNCHANGED calls
             ELSE /\ pc' = "loop"
                  /\ calls' = [calls EXCEPT !.telegram = r.result]
    /\ UNCHANGED <<creds, ipo_symbols, idx, visited, outcome, skipped, hist, ath_info,
                   current, has_bulk, has_news, has_insider, diff>>

Next ==
    \/ GetRecentIpos
    \/ NextSymbol
    \/ ScanComplete
    \/ FetchHistory
    \/ ComputeATH
    \/ RecencyGate
    \/ CheckBulkDeal
    \/ CheckPositiveNews
    \/ CheckInsiderBuying
    \/ Decide
    \/ SendTelegram

Spec == Init /\ [][Next]_vars

\* the script is sequential and every external call has a timeout, so a
\* step that can be taken is taken
LiveSpec == Spec /\ WF_vars(Next)

TypeOK ==
    /\ pc \in {"start", "loop", "fetch_history", "compute_ath", "recency_gate",
               "check_bulk", "check_news", "check_insider", "decide",
               "send_telegram", "done", "crashed"}
    /\ idx \in 0..Len(ipo_symbols)
    /\ Len(visited) = idx
    /\ skipped \in 0..idx

\* ------------------------------------------------ compute_ath on any input
\* compute_ath applied to an arbitrary argument, the absent ones included
AthInputs == {NoneHist, EmptyHist} \cup Frames \cup NoHighFrames

InitATH ==
    /\ pc = "ath_input"
    /\ hist \in AthInputs
    /\ creds = FALSE
    /\ ipo_symbols = <<>>
    /\ idx = 0
    /\ visited = <<>>
    /\ outcome = "none"
    /\ skipped = 0
    /\ ath_info = NoneAth
    /\ current = 0
    /\ has_bulk = FALSE
    /\ has_news = FALSE
    /\ has_insider = FALSE
    /\ diff = 0
    /\ calls = NoCalls

ApplyComputeATH ==
    /\ pc = "ath_input"
    /\ ath_info' = compute_ath(hist)
    /\ pc' = "ath_output"
    /\ UNCHANGED <<creds, ipo_symbols, idx, visited, outcome, skipped, hist,
                   current, has_bulk, has_news, has_insider, diff, calls>>

NextATH == ApplyComputeATH

SpecATH == InitATH /\ [][NextATH]_vars

\* ===================================================================
\* Properties
\* ===================================================================
\* what the specification says about a history, stated without the code's
\* scan: the maximum High, its earliest position (0-based), the gap to the
\* latest bar, the latest close
Usable(h) == h.kind = "frame" /\ h.hasHigh
AthPrice(h) == CHOOSE m \in {h.High[i] : i \in 1..Len(h.High)} :
                  \A i \in 1..Len(h.High) : h.High[i] <= m
AthIndex(h) == CHOOSE i \in 0..(Len(h.High) - 1) :
                  /\ h.High[i + 1] = AthPrice(h)
                  /\ \A j \in 0..(i - 1) : h.High[j + 1] < AthPrice(h)
BarsSinceATH(h) == Len(h.High) - 1 - AthIndex(h)
LatestClose(h) == h.Close[Len(h.Close)]
Skips == {"no_history", "no_ath", "too_recent"}
\* the current symbol's iteration has reached its outcome
Evaluated == idx > 0 /\ outcome # "none"
AllChecksCalled ==
    calls.bulk # "not_called" /\ calls.news # "not_called" /\ calls.insider # "not_called"
NoCheckCalled ==
    calls.bulk = "not_called" /\ calls.news = "not_called" /\ calls.insider = "not_called"

\* C1: no failure of an external call terminates the run; in particular a
\* failed or malformed universe fetch is recovered and the run goes on to
\* its completion step.
C1_NoExternalFailureAborts == pc # "crashed"

\* C2: the universe returned by get_recent_ipos holds each symbol at most
\* once.
C2_UniverseSymbolsUnique ==
    \A i, j \in 1..Len(ipo_symbols) : ipo_symbols[i] = ipo_symbols[j] => i = j

\* C3: for a symbol with a usable history that passes the recency gate, the
\* alert is raised (and send_telegram called) exactly when the latest close
\* is >= athPrice * (1 - THRESHOLD), bound included.
C3_AlertIffWithinThreshold ==
    (Evaluated /\ Usable(hist) /\ BarsSinceATH(hist) >= 3) =>
        /\ outcome \in {"alert", "no_alert"}
        /\ outcome = "alert" <=>
              LatestClose(hist) * 100 >= AthPrice(hist) * (100 - THRESHOLD_PCT)
        /\ (outcome = "alert" /\ pc # "send_telegram") => calls.telegram # "not_called"
        /\ outcome = "no_alert" => calls.telegram = "not_called"

C3_Witness ==
    /\ pc = "loop" /\ Evaluated /\ outcome = "alert"
    /\ calls.telegram # "not_called"
    /\ AthPrice(hist) = 100 /\ LatestClose(hist) = 97

\* C4: a symbol whose all-time high lies in one of the last three bars
\* (barsSinceATH < 3) is rejected by the gate and never notified, whatever its
\* close; a symbol with barsSinceATH >= 3 is never rejected by the gate.
C4_RecencyGate ==
    /\ (pc = "send_telegram" \/ calls.telegram # "not_called") =>
          (Usable(hist) /\ BarsSinceATH(hist) >= 3)
    /\ (Evaluated /\ Usable(hist)) =>
          (outcome = "too_recent" <=> BarsSinceATH(hist) < 3)

C4_Witness ==
    /\ pc = "loop" /\ outcome = "too_recent"
    /\ BarsSinceATH(hist) = 2
    /\ LatestClose(hist) >= AthPrice(hist)

\* C5: the corroboration signals do not gate the alert: the decision taken
\* for a symbol is the decision the same ATH and close give under every other
\* combination of bulk-deal, news and insider results; the results only show
\* in the Yes/No annotations.
C5_SignalsDoNotGate ==
    (Evaluated /\ outcome \in {"alert", "no_alert"}) =>
        \A b, n, i \in BOOLEAN :
            LET d == MainAlert(ath_info.ath, current, b, n, i)
            IN /\ d.alert <=> outcome = "alert"
               /\ d.bulk_msg = "Yes" <=> b
               /\ d.news_msg = "Yes" <=> n
               /\ d.insider_msg = "Yes" <=> i

C5_Witness ==
    /\ pc = "send_telegram" /\ outcome = "alert"
    /\ ~has_bulk /\ ~has_news /\ ~has_insider
    /\ calls.bulk = "failed" /\ calls.news = "failed" /\ calls.insider = "failed"

\* what one symbol's evaluation comes to, from its own history alone
ExpectedOutcome(h) ==
    IF h.kind = "None" THEN "no_history"
    ELSE IF ~Usable(h) THEN "no_ath"
    ELSE IF BarsSinceATH(h) < 3 THEN "too_recent"
    ELSE IF LatestClose(h) * 100 >= AthPrice(h) * (100 - THRESHOLD_PCT) THEN "alert"
    ELSE "no_alert"

\* C6: a skipped symbol (no history, no ATH result, ATH too recent) ends only
\* its own iteration: the entries of the universe are visited once each and
\* in order, every symbol's outcome is the one its own history gives, however
\* many symbols were skipped before it, and after a skip the run reaches
\* completion with the whole universe visited.
C6_SkipsAreIsolated ==
    /\ [](visited = SubSeq(ipo_symbols, 1, idx))
    /\ [](Evaluated => outcome = ExpectedOutcome(hist))
    /\ [](pc = "done" => visited = ipo_symbols)
    /\ ((pc = "loop" /\ Evaluated /\ outcome \in Skips) ~> pc = "done")

C6_Witness ==
    /\ pc = "done" /\ skipped >= 1 /\ idx = 2
    /\ outcome = "alert" /\ visited = ipo_symbols

\* C7: whenever an alert is emitted, the reported distance from the ATH is
\* >= 0, also when the latest close is above every recorded high.
C7_DistanceNonNegative == pc = "send_telegram" => diff >= 0

\* C8: for a non-empty history with a High column compute_ath returns the
\* maximum High, the smallest position at which it occurs and the number of
\* bars; for a missing or empty history, or one without a High column, it
\* returns the absent result.
C8_ComputeAth ==
    pc = "ath_output" =>
        IF Usable(hist)
        THEN /\ ath_info.ok
             /\ ath_info.ath = AthPrice(hist)
             /\ ath_info.ath_pos = AthIndex(hist)
             /\ ath_info.total = Len(hist.High)
             /\ ath_info.total - 1 - ath_info.ath_pos = BarsSinceATH(hist)
        ELSE ath_info = NoneAth

C8_Witness ==
    /\ pc = "ath_output" /\ Usable(hist) /\ Len(hist.High) = 3
    /\ hist.High[1] = 99 /\ hist.High[2] = 100 /\ hist.High[3] = 100
    /\ ath_info.ath = 100 /\ ath_info.ath_pos = 1

\* C9: a corroboration check whose external call fails gives false and
\* raises nothing: the evaluation moves on to the next step, the results of
\* the other two checks are left as they are.
C9_ChecksSwallowFailures ==
    /\ [](/\ calls.bulk = "failed" => ~has_bulk
          /\ calls.news = "failed" => ~has_news
          /\ calls.insider = "failed" => ~has_insider)
    /\ [][/\ pc = "check_bulk" =>
                pc' = "check_news" /\ has_news' = has_news /\ has_insider' = has_insider
          /\ pc = "check_news" =>
                pc' = "check_insider" /\ has_bulk' = has_bulk /\ has_insider' = has_insider
          /\ pc = "check_insider" =>
                pc' = "decide" /\ has_bulk' = has_bulk /\ has_news' = has_news]_vars

C9_Witness ==
    /\ pc = "decide"
    /\ calls.bulk = "failed" /\ ~has_bulk
    /\ calls.news = "ok" /\ has_news
    /\ calls.insider = "ok" /\ has_insider

\* C10: within an iteration the steps come in the order history, ATH,
\* recency gate, bulk, news, insider, decision, notification: a notification
\* follows all three checks of the same symbol, a skipped symbol gets no check
\* and no notification, and every symbol that is decided got all three checks,
\* alert or not.
C10_StepOrder ==
    /\ pc \in {"check_bulk", "check_news", "check_insider", "decide", "send_telegram"} =>
          /\ Usable(hist) /\ ath_info = compute_ath(hist)
          /\ ~TooRecent(ath_info.ath_pos, ath_info.total)
    /\ calls.news # "not_called" => calls.bulk # "not_called"
    /\ calls.insider # "not_called" => calls.news # "not_called"
    /\ pc = "check_bulk" => NoCheckCalled
    /\ (pc = "decide" \/ pc = "send_telegram" \/ calls.telegram # "not_called") =>
          AllChecksCalled
    /\ (Evaluated /\ outcome \in Skips) =>
          NoCheckCalled /\ calls.telegram = "not_called"
    /\ (Evaluated /\ outcome \in {"alert", "no_alert"}) => AllChecksCalled
    /\ calls.telegram # "not_called" => outcome = "alert"

C10_Witness ==
    /\ pc = "loop" /\ outcome = "no_alert"
    /\ AllChecksCalled /\ calls.telegram = "not_called"
====
